---- MODULE Spec2Model ----
(***************************************************************************)
(* Transaction-monitoring analysis: the rate-metric calculators of         *)
(* helper/function.py, the interactive report of                           *)
(* generate_plotly_report.py, the quality analyzer, and the two scripts    *)
(* (main.py and generate_plotly_report.py's __main__) that drive them.     *)
(*                                                                         *)
(* Representation.                                                         *)
(*   - A cell is <<>> (null / NaN / None) or <<v>> (the value v).          *)
(*   - A table is [cols |-> the columns present, rows |-> the rows]; a row *)
(*     is a record over all of Columns, null in the columns not present.   *)
(*   - A float computed by a division is the pair <<numerator,             *)
(*     denominator>>; <<0, 0>> is nan and <<n, 0>> (n > 0) is inf, which   *)
(*     is what numpy's scalar true-division yields for a zero divisor.     *)
(*   - Country labels are integers standing for their rank in the          *)
(*     lexicographic order groupby sorts keys in; the other labels are     *)
(*     strings ranked by Labels.                                           *)
(***************************************************************************)
EXTENDS Integers, Sequences, FiniteSets, TLC

VARIABLES
    script,             \* which program runs: "main" (main.py) or "plotly"
    pc,                 \* the call the script is at, "done", or "raised"
    df,                 \* the DataFrame
    raised,             \* the exception that ended the script, or "none"
    notices,            \* the 'missing column' messages printed so far
    files,              \* the output files written so far
    quality_report,     \* analyze_data_quality's return value (a cell)
    fpr_analysis,       \* what calculate_false_positive_rates printed (a cell)
    fpr_report,         \* generate_fpr_report's report content (a cell)
    interactive_report, \* create_interactive_report's figures (a cell)
    quality_rerun,      \* the return value of a second analyze_data_quality call
    csv                 \* the input file's content, as pd.read_csv loads it

vars == <<script, pc, df, raised, notices, files, quality_report,
          fpr_analysis, fpr_report, interactive_report, quality_rerun, csv>>

-----------------------------------------------------------------------------
(* Bounds of the model *)

MaxRows == 3          \* rows of a table of the general families
MaxAmountRows == 2    \* rows of a table of the amount family
MaxCountries == 11    \* countries of a table of the country family
MaxQualityRows == 4   \* rows of a small table of the quality family
PercentRows == 100    \* rows of a large table of the quality family

-----------------------------------------------------------------------------
(* Cells, columns, rows, tables *)

Null == <<>>
Val(v) == <<v>>
IsNull(c) == c = Null
NotNull(c) == c # Null

Columns == {"alert_outcome", "alert_type", "customer_risk_tier", "country",
            "alert_amount_usd", "amount_bin", "is_tp"}

\* The order of the columns in the file's header.
ColumnOrder == <<"alert_outcome", "alert_type", "customer_risk_tier", "country",
                 "alert_amount_usd", "amount_bin", "is_tp">>

\* String labels in lexicographic order (the order groupby sorts its keys in).
Labels == <<"high", "low", "medium", "structuring", "velocity">>

Row(o, t, k, c, a) ==
    [alert_outcome |-> o, alert_type |-> t, customer_risk_tier |-> k,
     country |-> c, alert_amount_usd |-> a, amount_bin |-> Null, is_tp |-> Null]

SeqsUpTo(S, n) == UNION {[1..k -> S] : k \in 0..n}

Table(cols, rows) == [cols |-> cols, rows |-> rows]

\* len(df)
Len_df(t) == Len(t.rows)

\* (mask).sum(): the number of rows for which mask holds
CountIf(rows, mask(_)) == Cardinality({i \in 1..Len(rows) : mask(rows[i])})

\* df[col] = values: adds the column or overwrites it
AssignCol(t, col, value(_)) ==
    [cols |-> t.cols \cup {col},
     rows |-> [i \in 1..Len(t.rows) |->
                  [t.rows[i] EXCEPT ![col] = value(t.rows[i])]]]

\* df.drop(col, axis=1, inplace=True)
DropCol(t, col) ==
    [cols |-> t.cols \ {col},
     rows |-> [i \in 1..Len(t.rows) |-> [t.rows[i] EXCEPT ![col] = Null]]]

-----------------------------------------------------------------------------
(* Floats *)

NaN == <<0, 0>>
Zero == <<0, 1>>

\* numpy scalar true-division a / b: nan or inf (a RuntimeWarning, no
\* exception) for a zero divisor
Div(a, b) == <<a, b>>

IsNaN(r) == r[1] = 0 /\ r[2] = 0
IsFinite(r) == r[2] > 0
IsZero(r) == r[2] > 0 /\ r[1] = 0

\* r > s, r >= s on floats; any comparison with nan is False
Gt(r, s) == IsFinite(r) /\ IsFinite(s) /\ r[1] * s[2] > s[1] * r[2]
Ge(r, s) == IsFinite(r) /\ IsFinite(s) /\ r[1] * s[2] >= s[1] * r[2]

\* count / n if n > 0 else 0
GuardedRate(count, n) == IF n > 0 THEN Div(count, n) ELSE Zero

-----------------------------------------------------------------------------
(* groupby, sort_values, head *)

RECURSIVE Index(_, _)
Index(seq, v) == IF Head(seq) = v THEN 1 ELSE 1 + Index(Tail(seq), v)

\* The rank of a group key in sorted order.
KeyRank(col, v) == IF col = "country" THEN v ELSE Index(Labels, v)

RECURSIVE SortedKeys(_, _)
SortedKeys(col, S) ==
    IF S = {} THEN <<>>
    ELSE LET m == CHOOSE x \in S : \A y \in S : KeyRank(col, x) <= KeyRank(col, y)
         IN  <<m>> \o SortedKeys(col, S \ {m})

\* The group keys of df.groupby(col): the distinct non-null values, sorted.
GroupKeys(t, col) ==
    SortedKeys(col, {t.rows[i][col][1] : i \in {j \in 1..Len(t.rows) : NotNull(t.rows[j][col])}})

\* The rows of one group.
GroupRows(t, col, key) == SelectSeq(t.rows, LAMBDA r : r[col] = Val(key))

\* lambda x: (x == 'false_positive').sum() / len(x) if len(x) > 0 else 0
GroupFpr(rows) ==
    GuardedRate(CountIf(rows, LAMBDA r : r.alert_outcome = Val("false_positive")), Len(rows))

\* df.groupby(col)['alert_outcome'].apply(lambda ...): one entry per key, in key order
FprBy(t, col) ==
    LET keys == GroupKeys(t, col)
    IN  [i \in 1..Len(keys) |->
            LET g == GroupRows(t, col, keys[i])
            IN  [key |-> keys[i], rate |-> GroupFpr(g),
                 count |-> CountIf(g, LAMBDA r : r.alert_outcome = Val("false_positive")),
                 total |-> Len(g)]]

RECURSIVE InsertDesc(_, _)
\* e goes after every entry whose rate is >= its own (equal rates keep their order)
InsertDesc(sorted, e) ==
    IF sorted = <<>> THEN <<e>>
    ELSE IF Ge(Head(sorted).rate, e.rate) THEN <<Head(sorted)>> \o InsertDesc(Tail(sorted), e)
    ELSE <<e>> \o sorted

\* The sort left out: the entries stay in key order.
SortValuesOmitted(s) == s

RECURSIVE SortValuesDesc(_)
\* .sort_values(ascending=False)
SortValuesDesc(s) ==
    IF s = <<>> THEN <<>>
    ELSE InsertDesc(SortValuesDesc(SubSeq(s, 1, Len(s) - 1)), s[Len(s)])

\* .head(n)
HeadN(s, n) == SubSeq(s, 1, IF Len(s) < n THEN Len(s) ELSE n)

TopN == 10

-----------------------------------------------------------------------------
(* Overall counts *)

\* Every row that is not a false positive taken as a true positive.
NotFalsePositives(t) == CountIf(t.rows, LAMBDA r : r.alert_outcome # Val("false_positive"))

FalsePositives(t) == CountIf(t.rows, LAMBDA r : r.alert_outcome = Val("false_positive"))
TruePositives(t) == CountIf(t.rows, LAMBDA r : r.alert_outcome = Val("true_positive"))

\* A breakdown that is computed only if its column is in the table.
IfColumn(t, col, breakdown) == IF col \in t.cols THEN Val(breakdown) ELSE Null

-----------------------------------------------------------------------------
(* calculate_false_positive_rates: the figures it prints and plots *)

calculate_false_positive_rates(t) ==
    [total_alerts    |-> Len_df(t),
     false_positives |-> FalsePositives(t),
     true_positives  |-> TruePositives(t),
     overall_fpr     |-> GuardedRate(FalsePositives(t), Len_df(t)),
     by_alert_type   |-> IfColumn(t, "alert_type", SortValuesDesc(FprBy(t, "alert_type"))),
     by_risk_tier    |-> IfColumn(t, "customer_risk_tier",
                                  SortValuesDesc(FprBy(t, "customer_risk_tier"))),
     by_country      |-> IfColumn(t, "country",
                                  HeadN(SortValuesDesc(FprBy(t, "country")), TopN))]

-----------------------------------------------------------------------------
(* generate_fpr_report: the content of the text report *)

\* The first line of RECOMMENDATIONS.
Recommendation(fpr) ==
    IF Gt(fpr, <<8, 10>>) THEN "VERY HIGH FPR"
    ELSE IF Gt(fpr, <<6, 10>>) THEN "HIGH FPR"
    ELSE IF Gt(<<3, 10>>, fpr) THEN "GOOD FPR"
    ELSE "MODERATE FPR"

generate_fpr_report(t) ==
    LET overall_fpr == GuardedRate(FalsePositives(t), Len_df(t))
    IN  [total_alerts    |-> Len_df(t),
         false_positives |-> FalsePositives(t),
         true_positives  |-> TruePositives(t),
         overall_fpr     |-> overall_fpr,
         overall_tpr     |-> Div(TruePositives(t), Len_df(t)),
         by_alert_type   |-> IfColumn(t, "alert_type", FprBy(t, "alert_type")),
         by_risk_tier    |-> IfColumn(t, "customer_risk_tier", FprBy(t, "customer_risk_tier")),
         by_country      |-> IfColumn(t, "country",
                                      HeadN(SortValuesDesc(FprBy(t, "country")), TopN)),
         recommendation  |-> Recommendation(overall_fpr)]

-----------------------------------------------------------------------------
(* create_interactive_report *)

BinEdges == <<0, 1000, 5000, 10000, 20000>>
BinLabels == <<"$0-1K", "$1K-5K", "$5K-10K", "$10K-20K", "$20K+">>

\* pd.cut(amount, bins=bins, labels=labels): bin i is (edge i, edge i+1], the
\* last one (20000, inf]; a value in no bin, or null, gets null
Cut(amount) ==
    IF IsNull(amount) THEN Null
    ELSE LET v == amount[1]
             hit == {i \in 1..Len(BinEdges) :
                        /\ BinEdges[i] < v
                        /\ (i = Len(BinEdges) \/ v <= BinEdges[i + 1])}
         IN  IF hit = {} THEN Null ELSE Val(BinLabels[CHOOSE i \in hit : TRUE])

\* df.groupby('amount_bin', observed=True).agg(tpr=..., count=...): one entry
\* per bucket that has rows, in the order of the labels
TprByAmount(t) ==
    LET observed == SelectSeq(BinLabels,
                        LAMBDA l : \E i \in 1..Len(t.rows) : t.rows[i].amount_bin = Val(l))
    IN  [i \in 1..Len(observed) |->
            LET g == SelectSeq(t.rows, LAMBDA r : r.amount_bin = Val(observed[i]))
            IN  [amount_bin |-> observed[i],
                 tpr   |-> Div(CountIf(g, LAMBDA r : r.alert_outcome = Val("true_positive")),
                               Len(g)),
                 count |-> Len(g)]]

\* (df['alert_outcome'] == 'true_positive').astype(int)
IsTp(r) == Val(IF r.alert_outcome = Val("true_positive") THEN 1 ELSE 0)

\* The rows pivot_table aggregates: those with both keys non-null.
PivotRows(t) ==
    SelectSeq(t.rows, LAMBDA r : NotNull(r.country) /\ NotNull(r.customer_risk_tier))

PivotIndex(t) ==
    SortedKeys("country", {PivotRows(t)[i].country[1] : i \in 1..Len(PivotRows(t))})

PivotColumns(t) ==
    SortedKeys("customer_risk_tier",
               {PivotRows(t)[i].customer_risk_tier[1] : i \in 1..Len(PivotRows(t))})

PivotCell(t, country, tier) ==
    SelectSeq(t.rows, LAMBDA r : r.country = Val(country) /\ r.customer_risk_tier = Val(tier))

\* df.pivot_table(values='is_tp', ..., aggfunc='mean'): nan where the pair has no row
PivotMean(t) ==
    [i \in 1..Len(PivotIndex(t)) |-> [j \in 1..Len(PivotColumns(t)) |->
        LET g == PivotCell(t, PivotIndex(t)[i], PivotColumns(t)[j])
        IN  IF g = <<>> THEN NaN
            ELSE Div(CountIf(g, LAMBDA r : r.is_tp = Val(1)), Len(g))]]

\* df.pivot_table(values='is_tp', ..., aggfunc='count'): nan where the pair has no row
PivotCount(t) ==
    [i \in 1..Len(PivotIndex(t)) |-> [j \in 1..Len(PivotColumns(t)) |->
        LET g == PivotCell(t, PivotIndex(t)[i], PivotColumns(t)[j])
        IN  IF g = <<>> THEN NaN ELSE <<Len(g), 1>>]]

\* int(cnt) in the hover text raises ValueError for a nan count
HoverTextRaises(t) ==
    \E i \in 1..Len(PivotIndex(t)) : \E j \in 1..Len(PivotColumns(t)) :
        IsNaN(PivotCount(t)[i][j])

HasHeatmapColumns(t) == {"country", "customer_risk_tier", "alert_outcome"} \subseteq t.cols

\* The table after section 3: amount_bin assigned, then dropped.
AfterAmountSection(t) ==
    IF "alert_amount_usd" \in t.cols
    THEN DropCol(AssignCol(t, "amount_bin", LAMBDA r : Cut(r.alert_amount_usd)), "amount_bin")
    ELSE t

\* The table in section 4, between the assignment of is_tp and its drop.
InHeatmapSection(t) == AssignCol(AfterAmountSection(t), "is_tp", IsTp)

\* Whether the call raises (part-way through section 4).
InteractiveReportRaises(t) == HasHeatmapColumns(t) /\ HoverTextRaises(InHeatmapSection(t))

\* The table the call leaves behind.
TableAfterInteractiveReport(t) ==
    IF ~HasHeatmapColumns(t) THEN AfterAmountSection(t)
    ELSE IF InteractiveReportRaises(t) THEN InHeatmapSection(t)
    ELSE DropCol(InHeatmapSection(t), "is_tp")

\* The figures of the report.
create_interactive_report(t) ==
    [total_alerts    |-> Len_df(t),
     false_positives |-> FalsePositives(t),
     true_positives  |-> TruePositives(t),
     overall_fpr     |-> Div(FalsePositives(t), Len_df(t)),
     by_alert_type   |-> IfColumn(t, "alert_type", SortValuesDesc(FprBy(t, "alert_type"))),
     by_risk_tier    |-> IfColumn(t, "customer_risk_tier",
                                  SortValuesDesc(FprBy(t, "customer_risk_tier"))),
     by_country      |-> IfColumn(t, "country",
                                  HeadN(SortValuesDesc(FprBy(t, "country")), TopN)),
     amount_bins     |-> IF "alert_amount_usd" \in t.cols
                         THEN [i \in 1..Len(t.rows) |-> Cut(t.rows[i].alert_amount_usd)]
                         ELSE <<>>,
     tpr_by_amount   |-> IfColumn(t, "alert_amount_usd",
                            TprByAmount(AssignCol(t, "amount_bin",
                                                  LAMBDA r : Cut(r.alert_amount_usd)))),
     heatmap         |-> IF HasHeatmapColumns(t)
                         THEN Val([index   |-> PivotIndex(InHeatmapSection(t)),
                                   columns |-> PivotColumns(InHeatmapSection(t)),
                                   tpr     |-> PivotMean(InHeatmapSection(t)),
                                   count   |-> PivotCount(InHeatmapSection(t))])
                         ELSE Null]

-----------------------------------------------------------------------------
(* analyze_data_quality *)

MapSeq(s, f(_)) == [i \in 1..Len(s) |-> f(s[i])]

\* df.columns, in order
ColumnsOf(t) == SelectSeq(ColumnOrder, LAMBDA c : c \in t.cols)

\* The columns that hold numbers when they hold anything.
NumericColumns == {"alert_amount_usd", "is_tp"}

\* The columns whose lower-cased name contains 'amount' or 'value'.
AmountNamed == {"alert_amount_usd", "amount_bin"}

\* Strings made of whitespace only, the empty string among them.
Whitespace == {"", " ", "  "}

\* str.strip()
Strip(str) == IF str \in Whitespace THEN "" ELSE str

NullCount(t, col) == CountIf(t.rows, LAMBDA r : IsNull(r[col]))

\* The dtype pd.read_csv infers: object for a file with no data row, float64
\* for a column with no value
Dtype(t, col) ==
    IF Len_df(t) = 0 THEN "object"
    ELSE IF NullCount(t, col) = Len_df(t) THEN "float64"
    ELSE IF col \in NumericColumns THEN "float64"
    ELSE "object"

\* df.select_dtypes(include=[np.number]).columns
NumericCols(t) == SelectSeq(ColumnsOf(t), LAMBDA c : Dtype(t, c) = "float64")

\* df.select_dtypes(include=['object']).columns
TextCols(t) == SelectSeq(ColumnsOf(t), LAMBDA c : Dtype(t, c) = "object")

\* (count / len(df)) * 100
Percentage(count, n) == Div(count * 100, n)

\* df.duplicated().sum(): the rows equal to an earlier row
DuplicateRows(t) ==
    Cardinality({i \in 1..Len(t.rows) : \E j \in 1..(i - 1) : t.rows[j] = t.rows[i]})

MissingData(t) ==
    [columns_with_missing |->
        MapSeq(SelectSeq(ColumnsOf(t), LAMBDA c : NullCount(t, c) > 0),
               LAMBDA c : <<c, NullCount(t, c)>>),
     missing_percentages |->
        MapSeq(SelectSeq(ColumnsOf(t),
                         LAMBDA c : Gt(Percentage(NullCount(t, c), Len_df(t)), Zero)),
               LAMBDA c : <<c, Percentage(NullCount(t, c), Len_df(t))>>),
     rows_with_any_missing |->
        CountIf(t.rows, LAMBDA r : \E c \in t.cols : IsNull(r[c]))]

Duplicates(t) ==
    [duplicate_rows       |-> DuplicateRows(t),
     duplicate_percentage |-> Percentage(DuplicateRows(t), Len_df(t)),
     unique_rows          |-> Len_df(t) - DuplicateRows(t)]

RECURSIVE InsertAsc(_, _)
InsertAsc(sorted, v) ==
    IF sorted = <<>> THEN <<v>>
    ELSE IF Head(sorted) <= v THEN <<Head(sorted)>> \o InsertAsc(Tail(sorted), v)
    ELSE <<v>> \o sorted

RECURSIVE SortAsc(_)
SortAsc(s) == IF s = <<>> THEN <<>> ELSE InsertAsc(SortAsc(Tail(s)), Head(s))

\* The non-null values of a column, ascending.
SortedValues(t, col) ==
    SortAsc(MapSeq(SelectSeq(t.rows, LAMBDA r : NotNull(r[col])), LAMBDA r : r[col][1]))

\* The quantile taken as the value below its position, without interpolation.
QuantileLower4(x, k) == 4 * x[((k * (Len(x) - 1)) \div 4) + 1]

\* Series.quantile(k/4), linear interpolation, times 4: with n values the
\* position is k(n-1)/4, between the values at its floor and its ceiling
Quantile4(x, k) ==
    LET pos4 == k * (Len(x) - 1)
        lo   == (pos4 \div 4) + 1
        hi   == IF pos4 % 4 = 0 THEN lo ELSE lo + 1
    IN  4 * x[lo] + (x[hi] - x[lo]) * (pos4 % 4)

\* The outlier entry of one numeric column with a non-null value.
OutlierInfo(t, col) ==
    LET x      == SortedValues(t, col)
        Q1     == Quantile4(x, 1)
        Q3     == Quantile4(x, 3)
        IQR    == Q3 - Q1
        lower8 == 2 * Q1 - 3 * IQR
        upper8 == 2 * Q3 + 3 * IQR
        count  == CountIf(t.rows, LAMBDA r : NotNull(r[col]) /\
                            (8 * r[col][1] < lower8 \/ 8 * r[col][1] > upper8))
    IN  [col |-> col,
         outlier_count      |-> count,
         outlier_percentage |-> Percentage(count, Len_df(t)),
         Q1 |-> <<Q1, 4>>, Q3 |-> <<Q3, 4>>,
         lower_bound |-> <<lower8, 8>>,
         upper_bound |-> <<upper8, 8>>,
         min_value   |-> x[1],
         max_value   |-> x[Len(x)]]

\* outlier_info: the numeric columns with at least one non-null value
Outliers(t) ==
    MapSeq(SelectSeq(NumericCols(t), LAMBDA c : NullCount(t, c) < Len_df(t)),
           LAMBDA c : OutlierInfo(t, c))

NegativeCount(t, col) == CountIf(t.rows, LAMBDA r : NotNull(r[col]) /\ r[col][1] < 0)
\* The text of a value of a text column (a country's label is never blank).
Text(col, v) == IF col = "country" THEN "country" ELSE v

\* (df[col] == '').sum()
EmptyStrings(t, col) ==
    CountIf(t.rows, LAMBDA r : NotNull(r[col]) /\ Text(col, r[col][1]) = "")

\* df[col].str.strip().eq('').sum()
WhitespaceOnly(t, col) ==
    CountIf(t.rows, LAMBDA r : NotNull(r[col]) /\ Strip(Text(col, r[col][1])) = "")

\* The whitespace-only count reported without taking the empty strings off.
TextIssuesDoubleCounted(t, col) ==
    (IF EmptyStrings(t, col) > 0
     THEN <<[issue |-> <<col, "empty_strings">>, count |-> EmptyStrings(t, col)]>>
     ELSE <<>>)
    \o
    (IF WhitespaceOnly(t, col) > 0
     THEN <<[issue |-> <<col, "whitespace_only">>, count |-> WhitespaceOnly(t, col)]>>
     ELSE <<>>)

\* What one text column adds to the inconsistencies.
TextIssues(t, col) ==
    (IF EmptyStrings(t, col) > 0
     THEN <<[issue |-> <<col, "empty_strings">>, count |-> EmptyStrings(t, col)]>>
     ELSE <<>>)
    \o
    (IF WhitespaceOnly(t, col) > EmptyStrings(t, col)
     THEN <<[issue |-> <<col, "whitespace_only">>,
             count |-> WhitespaceOnly(t, col) - EmptyStrings(t, col)]>>
     ELSE <<>>)

RECURSIVE Concat(_)
Concat(ss) == IF ss = <<>> THEN <<>> ELSE Head(ss) \o Concat(Tail(ss))

Inconsistencies(t) ==
    MapSeq(SelectSeq(ColumnsOf(t),
                     LAMBDA c : c \in AmountNamed /\ Dtype(t, c) = "float64"
                                /\ NegativeCount(t, c) > 0),
           LAMBDA c : [issue |-> <<c, "negative_values">>, count |-> NegativeCount(t, c)])
    \o Concat(MapSeq(TextCols(t), LAMBDA c : TextIssues(t, c)))

high_missing_threshold == 50

\* The thresholds taken as inclusive.
MissingFlagInclusive(pct) ==
    IF Ge(pct, <<high_missing_threshold, 1>>) THEN "HIGH MISSING"
    ELSE IF Ge(pct, <<20, 1>>) THEN "MODERATE MISSING"
    ELSE ""

\* The flag a missing percentage gets, "" for none.
MissingFlag(pct) ==
    IF Gt(pct, <<high_missing_threshold, 1>>) THEN "HIGH MISSING"
    ELSE IF Gt(pct, <<20, 1>>) THEN "MODERATE MISSING"
    ELSE ""

DuplicateFlag(pct) ==
    IF Gt(pct, <<10, 1>>) THEN "HIGH DUPLICATES"
    ELSE IF Gt(pct, <<5, 1>>) THEN "MODERATE DUPLICATES"
    ELSE ""

MissingFlags(t) ==
    MapSeq(SelectSeq(ColumnsOf(t),
                     LAMBDA c : MissingFlag(Percentage(NullCount(t, c), Len_df(t))) # ""),
           LAMBDA c : [flag |-> MissingFlag(Percentage(NullCount(t, c), Len_df(t))),
                       about |-> c])

DuplicateFlags(t) ==
    IF DuplicateFlag(Duplicates(t).duplicate_percentage) # ""
    THEN <<[flag |-> DuplicateFlag(Duplicates(t).duplicate_percentage), about |-> "rows"]>>
    ELSE <<>>

OutlierFlags(t) ==
    MapSeq(SelectSeq(Outliers(t), LAMBDA o : Gt(o.outlier_percentage, <<10, 1>>)),
           LAMBDA o : [flag |-> "HIGH OUTLIERS", about |-> o.col])

InconsistencyFlags(t) ==
    MapSeq(Inconsistencies(t),
           LAMBDA e : [flag |-> "INCONSISTENCY", about |-> e.issue[1],
                       issue |-> e.issue[2], count |-> e.count])

\* The four blocks of flags appended in the reverse order.
SummaryFlagsReversed(t) ==
    InconsistencyFlags(t) \o OutlierFlags(t) \o DuplicateFlags(t) \o MissingFlags(t)

SummaryFlags(t) ==
    MissingFlags(t) \o DuplicateFlags(t) \o OutlierFlags(t) \o InconsistencyFlags(t)

\* The Quality Report (memory_usage, a figure of the platform, is left out).
analyze_data_quality(t) ==
    [dataset_info    |-> [total_rows |-> Len_df(t), total_columns |-> Cardinality(t.cols)],
     missing_data    |-> MissingData(t),
     all_missing_percentages |->
        MapSeq(ColumnsOf(t), LAMBDA c : <<c, Percentage(NullCount(t, c), Len_df(t))>>),
     duplicates      |-> Duplicates(t),
     data_types      |-> [numeric_columns |-> NumericCols(t),
                          categorical_columns |-> TextCols(t)],
     outliers        |-> Outliers(t),
     inconsistencies |-> Inconsistencies(t),
     summary_flags   |-> SummaryFlags(t)]

-----------------------------------------------------------------------------
(* The scripts *)

\* The column check left out.
HasOutcomeUnchecked(t) == TRUE

\* df.dropna(inplace=True) slipped into the analysis.
TableAfterDropna(t) ==
    [t EXCEPT !.rows = SelectSeq(t.rows, LAMBDA r : \A c \in t.cols : NotNull(r[c]))]

\* if 'alert_outcome' not in df.columns: print(...); return
HasOutcome(t) == "alert_outcome" \in t.cols

\* analyze_data_quality assigns nothing to df and calls no in-place method.
TableAfterQuality(t) == t

\* The statement that follows a call that has returned.
NextCall(s, p) ==
    CASE s = "main" /\ p = "analyze_data_quality"           -> "calculate_false_positive_rates"
      [] s = "main" /\ p = "calculate_false_positive_rates" -> "generate_fpr_report"
      [] s = "main" /\ p = "generate_fpr_report"            -> "generate_eda_report"
      [] s = "quality" /\ p = "analyze_data_quality"        -> "analyze_data_quality_again"
      [] OTHER -> "done"

FirstCall(s) == IF s = "plotly" THEN "create_interactive_report" ELSE "analyze_data_quality"

\* main.py:23-24 (print_data_quality_summary only prints the report)
AnalyzeDataQuality ==
    /\ pc = "analyze_data_quality"
    /\ quality_report' = Val(analyze_data_quality(df))
    /\ df' = TableAfterQuality(df)
    /\ pc' = NextCall(script, pc)
    /\ UNCHANGED <<script, raised, notices, files, fpr_analysis, fpr_report,
                   interactive_report, quality_rerun, csv>>

\* A second call on the table the first call left.
AnalyzeDataQualityAgain ==
    /\ pc = "analyze_data_quality_again"
    /\ quality_rerun' = Val(analyze_data_quality(df))
    /\ df' = TableAfterQuality(df)
    /\ pc' = NextCall(script, pc)
    /\ UNCHANGED <<script, raised, notices, files, quality_report, fpr_analysis,
                   fpr_report, interactive_report, csv>>

\* main.py:30
CalculateFalsePositiveRates ==
    /\ pc = "calculate_false_positive_rates"
    /\ IF ~HasOutcome(df)
       THEN /\ notices' = notices \cup {"No 'alert_outcome' column found. Cannot calculate false positive rate."}
            /\ UNCHANGED <<fpr_analysis, files>>
       ELSE /\ fpr_analysis' = Val(calculate_false_positive_rates(df))
            /\ files' = files \cup {"false_positive_analysis.png"}
            /\ UNCHANGED notices
    /\ pc' = NextCall(script, pc)
    /\ UNCHANGED <<script, df, raised, quality_report, fpr_report, interactive_report,
                   quality_rerun, csv>>

\* main.py:31
GenerateFprReport ==
    /\ pc = "generate_fpr_report"
    /\ IF ~HasOutcome(df)
       THEN /\ notices' = notices \cup {"Cannot generate FPR report: Missing 'alert_outcome' column"}
            /\ UNCHANGED <<fpr_report, files>>
       ELSE /\ fpr_report' = Val(generate_fpr_report(df))
            /\ files' = files \cup {"false_positive_analysis_report.txt"}
            /\ UNCHANGED notices
    /\ pc' = NextCall(script, pc)
    /\ UNCHANGED <<script, df, raised, quality_report, fpr_analysis, interactive_report,
                   quality_rerun, csv>>

\* main.py:35
GenerateEdaReport ==
    /\ pc = "generate_eda_report"
    /\ files' = files \cup {"transaction_monitoring_report.html"}
    /\ pc' = NextCall(script, pc)
    /\ UNCHANGED <<script, df, raised, notices, quality_report, fpr_analysis, fpr_report,
                   interactive_report, quality_rerun, csv>>

\* generate_plotly_report.py:320
CreateInteractiveReport ==
    /\ pc = "create_interactive_report"
    /\ IF ~HasOutcome(df)
       THEN /\ notices' = notices \cup {"Cannot create report: Missing 'alert_outcome' column"}
            /\ pc' = NextCall(script, pc)
            /\ UNCHANGED <<df, raised, interactive_report, files>>
       ELSE /\ df' = TableAfterInteractiveReport(df)
            /\ IF InteractiveReportRaises(df)
               THEN /\ raised' = "ValueError"
                    /\ pc' = "raised"
                    /\ UNCHANGED <<interactive_report, files>>
               ELSE /\ interactive_report' = Val(create_interactive_report(df))
                    /\ files' = files \cup {"transaction_monitoring_analysis.html"}
                    /\ pc' = NextCall(script, pc)
                    /\ UNCHANGED raised
            /\ UNCHANGED notices
    /\ UNCHANGED <<script, quality_report, fpr_analysis, fpr_report, quality_rerun, csv>>

-----------------------------------------------------------------------------
(* The tables the scripts are run on *)

Outcomes == {Val("false_positive"), Val("true_positive")}
AlertTypes == {Val("structuring"), Val("velocity")}
RiskTiers == {Val("high"), Val("low")}
Amounts == {Null, Val(-5), Val(0), Val(1), Val(1000), Val(1001), Val(5000),
            Val(10000), Val(20000), Val(20001)}

\* A file without the outcome column.
NoOutcomeTables ==
    {Table({"alert_type"}, rows) :
        rows \in SeqsUpTo({Row(Null, t, Null, Null, Null) : t \in AlertTypes}, MaxRows)}

\* Outcome (also another label, or none) and alert type.
TypeTables ==
    {Table({"alert_outcome", "alert_type"}, rows) :
        rows \in SeqsUpTo({Row(o, t, Null, Null, Null) :
                             o \in Outcomes \cup {Val("escalated"), Null},
                             t \in AlertTypes}, MaxRows)}

\* Outcome, risk tier and country.
TierTables ==
    {Table({"alert_outcome", "customer_risk_tier", "country"}, rows) :
        rows \in SeqsUpTo({Row(o, Null, k, Val(c), Null) :
                             o \in Outcomes, k \in RiskTiers, c \in 1..2}, MaxRows)}

\* Outcome and amount.
AmountTables ==
    {Table({"alert_outcome", "alert_amount_usd"}, rows) :
        rows \in SeqsUpTo({Row(o, Null, Null, Null, a) : o \in Outcomes, a \in Amounts},
                          MaxAmountRows)}

\* A file that has columns named 'amount_bin' and 'is_tp' of its own.
TempNamedTables ==
    {Table({"alert_outcome", "customer_risk_tier", "country", "alert_amount_usd",
            "amount_bin", "is_tp"}, rows) :
        rows \in SeqsUpTo({[Row(o, Null, Val("high"), Val(1), a)
                                EXCEPT !.amount_bin = Val("$20K+"), !.is_tp = Val(7)] :
                             o \in Outcomes, a \in {Val(1), Val(5000)}}, MaxAmountRows)}

GeneralTables ==
    NoOutcomeTables \cup TypeTables \cup TierTables \cup AmountTables \cup TempNamedTables

\* Countries 1..n for every n up to MaxCountries: one row of either outcome per
\* country, and a second row, a true positive, for the even ones (rates 0, 1/2
\* and 1).
CountryTables ==
    {Table({"alert_outcome", "country"},
           [i \in 1..(Len(o) + Len(o) \div 2) |->
               IF i <= Len(o)
               THEN Row(o[i], Null, Null, Val(i), Null)
               ELSE Row(Val("true_positive"), Null, Null, Val(2 * (i - Len(o))), Null)]) :
        o \in SeqsUpTo(Outcomes, MaxCountries)}

Start(s, t) ==
    /\ script = s
    /\ pc = FirstCall(s)
    /\ csv = t
    /\ df = t
    /\ raised = "none"
    /\ notices = {}
    /\ files = {}
    /\ quality_report = Null
    /\ quality_rerun = Null
    /\ fpr_analysis = Null
    /\ fpr_report = Null
    /\ interactive_report = Null

Init == \E s \in {"main", "plotly"} : \E t \in GeneralTables : Start(s, t)

Next ==
    \/ AnalyzeDataQuality
    \/ CalculateFalsePositiveRates
    \/ GenerateFprReport
    \/ GenerateEdaReport
    \/ CreateInteractiveReport

Spec == Init /\ [][Next]_vars

\* The family of tables with up to MaxCountries countries.
InitCountry == \E s \in {"main", "plotly"} : \E t \in CountryTables : Start(s, t)

SpecCountry == InitCountry /\ [][Next]_vars

\* Small tables with nulls, among them tables with no row and all-null columns.
SmallQualityTables ==
    {Table({"alert_type", "alert_amount_usd"}, rows) :
        rows \in SeqsUpTo({Row(Null, t, Null, Null, a) :
                             t \in {Null, Val("structuring")},
                             a \in {Null, Val(1), Val(100)}}, MaxQualityRows)}

\* Tables of PercentRows rows whose two columns are null in their first a and
\* first b rows.
PercentTables ==
    {Table({"alert_type", "customer_risk_tier"},
           [i \in 1..PercentRows |->
               Row(Null, IF i <= a THEN Null ELSE Val("structuring"),
                   IF i <= b THEN Null ELSE Val("high"), Null, Null)]) :
        a \in {20, 21, 50, 51}, b \in {20, 21, 50, 51}}

\* The column [1, 2, 3, 4, 5, 100], a null beside it, in descending order, and
\* every table made of some of its rows.
QuartileCells == <<Val(100), Val(5), Null, Val(4), Val(3), Val(2), Val(1)>>

QuartileTables ==
    {Table({"alert_amount_usd"},
           MapSeq(SelectSeq([i \in 1..Len(QuartileCells) |-> i], LAMBDA i : i \in S),
                  LAMBDA i : Row(Null, Null, Null, Null, QuartileCells[i]))) :
        S \in SUBSET (1..Len(QuartileCells))}

\* Rows with a null, a repeated row, blank and whitespace-only texts, a
\* negative amount and a far amount, and every table made of some of them.
IssueRows ==
    <<Row(Null, Null, Null, Null, Val(1)),
      Row(Null, Val(" "), Null, Null, Val(1)),
      Row(Null, Val(" "), Null, Null, Val(1)),
      Row(Null, Val("structuring"), Null, Null, Val(100)),
      Row(Null, Val(""), Null, Null, Val(1)),
      Row(Null, Val("  "), Null, Null, Val(-5)),
      Row(Null, Val("velocity"), Null, Null, Val(1)),
      Row(Null, Val("structuring"), Null, Null, Val(2)),
      Row(Null, Val("velocity"), Null, Null, Val(3)),
      Row(Null, Val("structuring"), Null, Null, Val(4)),
      Row(Null, Val("velocity"), Null, Null, Val(5)),
      Row(Null, Val("velocity"), Null, Null, Null)>>

IssueTables ==
    {Table({"alert_type", "alert_amount_usd"},
           MapSeq(SelectSeq([i \in 1..Len(IssueRows) |-> i], LAMBDA i : i \in S),
                  LAMBDA i : IssueRows[i])) :
        S \in SUBSET (1..Len(IssueRows))}

QualityTables ==
    SmallQualityTables \cup PercentTables \cup QuartileTables \cup IssueTables

\* analyze_data_quality applied twice to a table.
InitQuality == \E t \in QualityTables : Start("quality", t)

NextQuality ==
    \/ AnalyzeDataQuality
    \/ AnalyzeDataQualityAgain

SpecQuality == InitQuality /\ [][NextQuality]_vars

-----------------------------------------------------------------------------
(* Properties *)

Range(s) == {s[i] : i \in 1..Len(s)}

RECURSIVE SumOf(_)
SumOf(s) == IF s = <<>> THEN 0 ELSE Head(s) + SumOf(Tail(s))

IsSortedDesc(b) == \A i \in 1..Len(b) : \A j \in i..Len(b) : Ge(b[i].rate, b[j].rate)

ZeroRowTable == "alert_outcome" \in csv.cols /\ Len(csv.rows) = 0

\* C1: for a table that has the outcome column and no row, every entry point
\* that computes overall rates reports an overall FPR of 0 and an overall TPR
\* of 0 and completes without a division fault.
C1_ZeroRowRatesAreZero ==
    ZeroRowTable =>
        /\ raised = "none"
        /\ fpr_analysis # Null => IsZero(fpr_analysis[1].overall_fpr)
        /\ fpr_report # Null =>
              IsZero(fpr_report[1].overall_fpr) /\ IsZero(fpr_report[1].overall_tpr)
        /\ interactive_report # Null => IsZero(interactive_report[1].overall_fpr)

RateCalls == {"calculate_false_positive_rates", "generate_fpr_report",
              "create_interactive_report"}

\* C2: on a table without the 'alert_outcome' column, each of
\* calculate_false_positive_rates, generate_fpr_report and
\* create_interactive_report prints its notice and returns: nothing is raised,
\* no file is written, the table and the results are left as they are, and the
\* script goes on to its next statement.
C2_NoOutcomeIsNoOp ==
    [][("alert_outcome" \notin df.cols /\ pc \in RateCalls) =>
          /\ df' = df
          /\ files' = files
          /\ raised' = "none"
          /\ Cardinality(notices') = Cardinality(notices) + 1
          /\ UNCHANGED <<fpr_analysis, fpr_report, interactive_report>>
          /\ pc = "calculate_false_positive_rates" => pc' = "generate_fpr_report"
          /\ pc = "generate_fpr_report" => pc' = "generate_eda_report"
          /\ pc = "create_interactive_report" => pc' = "done"]_vars

\* main.py has run to its end on a table with rows and no outcome column: both
\* notices are printed and only the EDA report is written.
C2_Witness ==
    /\ script = "main" /\ pc = "done"
    /\ "alert_outcome" \notin csv.cols /\ Len(csv.rows) > 0
    /\ Cardinality(notices) = 2
    /\ files = {"transaction_monitoring_report.html"}
    /\ df = csv /\ raised = "none"

\* C3: every row with a non-null amount is assigned to exactly one of the five
\* buckets, so the per-bucket row counts sum to the number of rows with a
\* non-null amount.
C3_BucketingIsTotal ==
    (interactive_report # Null /\ "alert_amount_usd" \in csv.cols) =>
        LET rep == interactive_report[1]
        IN  /\ \A i \in 1..Len(csv.rows) :
                  NotNull(csv.rows[i].alert_amount_usd) =>
                      \E l \in Range(BinLabels) : rep.amount_bins[i] = Val(l)
            /\ SumOf([i \in 1..Len(rep.tpr_by_amount[1]) |-> rep.tpr_by_amount[1][i].count])
                  = Cardinality({i \in 1..Len(csv.rows) :
                                    NotNull(csv.rows[i].alert_amount_usd)})

\* C4: an amount equal to a bin edge belongs to the bucket that starts at that
\* edge: 0 to '$0-1K', 1000 to '$1K-5K', 5000 to '$5K-10K', 10000 to
\* '$10K-20K', 20000 to '$20K+'.
C4_EdgeStartsItsBucket ==
    (interactive_report # Null /\ "alert_amount_usd" \in csv.cols) =>
        \A i \in 1..Len(csv.rows) : \A k \in 1..Len(BinEdges) :
            csv.rows[i].alert_amount_usd = Val(BinEdges[k]) =>
                interactive_report[1].amount_bins[i] = Val(BinLabels[k])

\* The (country, risk tier) pairs that have rows, and the rows of a pair.
ObservedPairs ==
    {<<csv.rows[i].country[1], csv.rows[i].customer_risk_tier[1]>> :
        i \in {j \in 1..Len(csv.rows) :
                  NotNull(csv.rows[j].country) /\ NotNull(csv.rows[j].customer_risk_tier)}}

PairRows(p) ==
    SelectSeq(csv.rows, LAMBDA r : r.country = Val(p[1]) /\ r.customer_risk_tier = Val(p[2]))

\* C5: on a table with country, risk-tier and outcome columns,
\* create_interactive_report completes without error, also when some (country,
\* risk tier) combination has no row, and its heatmap holds the TPR and the
\* alert count of every observed pair and nan for every combination without
\* rows.
C5_CrossTabCompletes ==
    (script = "plotly" /\ pc # "create_interactive_report"
       /\ {"country", "customer_risk_tier", "alert_outcome"} \subseteq csv.cols) =>
        /\ raised = "none"
        /\ interactive_report # Null
        /\ LET h == interactive_report[1].heatmap[1]
           IN  \A i \in 1..Len(h.index) : \A j \in 1..Len(h.columns) :
                  LET p == <<h.index[i], h.columns[j]>>
                  IN  IF p \in ObservedPairs
                      THEN /\ h.count[i][j] = <<Len(PairRows(p)), 1>>
                           /\ h.tpr[i][j] =
                                 <<Cardinality({n \in 1..Len(PairRows(p)) :
                                      PairRows(p)[n].alert_outcome = Val("true_positive")}),
                                   Len(PairRows(p))>>
                      ELSE IsNaN(h.tpr[i][j]) /\ IsNaN(h.count[i][j])

\* The FPR of the rows whose column col is v.
FprOf(col, v) ==
    <<Cardinality({i \in 1..Len(csv.rows) :
          csv.rows[i][col] = Val(v) /\ csv.rows[i].alert_outcome = Val("false_positive")}),
      Cardinality({i \in 1..Len(csv.rows) : csv.rows[i][col] = Val(v)})>>

\* A breakdown lists its groups in non-increasing order of rate, each with the
\* rate of its own rows.
SortedBreakdownOf(col, b) ==
    b # Null =>
        /\ IsSortedDesc(b[1])
        /\ \A i \in 1..Len(b[1]) : b[1][i].rate = FprOf(col, b[1][i].key)

\* C7: the breakdowns by alert type and by customer risk tier are emitted in
\* non-increasing order of rate in the console analysis, the text report and
\* the interactive report, each group's rate being that of its own rows.
C7_TypeAndTierSortedByRate ==
    \A r \in {x \in {fpr_analysis, fpr_report, interactive_report} : x # Null} :
        /\ SortedBreakdownOf("alert_type", r[1].by_alert_type)
        /\ SortedBreakdownOf("customer_risk_tier", r[1].by_risk_tier)

\* The per-country breakdowns that have been emitted.
CountryBreakdowns ==
    {r[1].by_country : r \in {x \in {fpr_analysis, fpr_report, interactive_report} : x # Null}}

CountriesOf(t) ==
    {t.rows[i].country[1] : i \in {j \in 1..Len(t.rows) : NotNull(t.rows[j].country)}}

\* C6: the per-country breakdown of the console analysis, the text report and
\* the interactive report has at most 10 entries, each a country of the table
\* with its own rate, in non-increasing order of rate, and no country left out
\* has a strictly higher rate than a country included.
C6_CountryTopTen ==
    \A b \in CountryBreakdowns : b # Null =>
        /\ Len(b[1]) <= 10
        /\ IsSortedDesc(b[1])
        /\ \A i \in 1..Len(b[1]) :
              /\ b[1][i].key \in CountriesOf(csv)
              /\ b[1][i].rate = FprOf("country", b[1][i].key)
              /\ \A j \in 1..Len(b[1]) : b[1][i].key = b[1][j].key => i = j
        /\ Len(b[1]) = IF Cardinality(CountriesOf(csv)) < 10
                       THEN Cardinality(CountriesOf(csv)) ELSE 10
        /\ \A c \in CountriesOf(csv) \ {b[1][i].key : i \in 1..Len(b[1])} :
              \A i \in 1..Len(b[1]) : ~Gt(FprOf("country", c), b[1][i].rate)

\* main.py has run to its end on a table of more than ten countries with
\* different rates: the three breakdowns are cut to ten entries, and a country
\* with rate 0 is left out while countries with rate 1 are listed.
C6_Witness ==
    /\ script = "main" /\ pc = "done"
    /\ Cardinality(CountriesOf(csv)) > 10
    /\ fpr_analysis # Null /\ fpr_report # Null
    /\ Len(fpr_report[1].by_country[1]) = 10
    /\ Len(fpr_analysis[1].by_country[1]) = 10
    /\ Gt(fpr_report[1].by_country[1][1].rate, fpr_report[1].by_country[1][10].rate)
    /\ \E c \in CountriesOf(csv) :
          /\ \A i \in 1..10 : fpr_report[1].by_country[1][i].key # c
          /\ IsZero(FprOf("country", c))

\* The ratios of a Quality Report.
QualityRatios(q) ==
    {q.all_missing_percentages[i][2] : i \in 1..Len(q.all_missing_percentages)}
    \cup {q.duplicates.duplicate_percentage}
    \cup {q.outliers[i].outlier_percentage : i \in 1..Len(q.outliers)}

\* C8: analyze_data_quality raises for no table, not for one with no row or
\* with an all-null column; every ratio of its report (missing percentage,
\* duplicate percentage, outlier percentage) has a defined value, and a
\* numeric column with no non-null value has no outlier entry.
C8_RatiosAreDefined ==
    quality_report # Null =>
        /\ raised = "none"
        /\ \A r \in QualityRatios(quality_report[1]) : IsFinite(r)
        /\ \A c \in csv.cols :
              (\A i \in 1..Len(csv.rows) : IsNull(csv.rows[i][c])) =>
                  \A i \in 1..Len(quality_report[1].outliers) :
                      quality_report[1].outliers[i].col # c

NullsIn(c) == Cardinality({i \in 1..Len(csv.rows) : IsNull(csv.rows[i][c])})

Flagged(q, flag, c) == [flag |-> flag, about |-> c] \in Range(q.summary_flags)

\* C10: a column is flagged 'HIGH MISSING' iff its missing percentage is
\* strictly greater than 50, and 'MODERATE MISSING' iff the percentage is
\* strictly greater than 20 and at most 50; no column gets both flags.
C10_MissingFlagThresholds ==
    quality_report # Null =>
        \A c \in csv.cols :
            LET n == Len(csv.rows)
                k == NullsIn(c)
                high == Flagged(quality_report[1], "HIGH MISSING", c)
                moderate == Flagged(quality_report[1], "MODERATE MISSING", c)
            IN  /\ high <=> (n > 0 /\ 100 * k > 50 * n)
                /\ moderate <=> (n > 0 /\ 100 * k > 20 * n /\ 100 * k <= 50 * n)
                /\ ~(high /\ moderate)

\* The report of a table one column of which is 50% null, flagged MODERATE
\* and not HIGH, and the other 51% null, flagged HIGH.
C10_Witness ==
    /\ quality_report # Null
    /\ Len(csv.rows) > 0
    /\ 100 * NullsIn("alert_type") = 50 * Len(csv.rows)
    /\ 100 * NullsIn("customer_risk_tier") = 51 * Len(csv.rows)
    /\ Flagged(quality_report[1], "MODERATE MISSING", "alert_type")
    /\ ~Flagged(quality_report[1], "HIGH MISSING", "alert_type")
    /\ Flagged(quality_report[1], "HIGH MISSING", "customer_risk_tier")

\* The non-null values of a column of the input, and the i-th smallest of them.
ValuesAt(c) == {i \in 1..Len(csv.rows) : NotNull(csv.rows[i][c])}

KthSmallest(c, k) ==
    CHOOSE v \in {csv.rows[i][c][1] : i \in ValuesAt(c)} :
        /\ Cardinality({i \in ValuesAt(c) : csv.rows[i][c][1] < v}) < k
        /\ k <= Cardinality({i \in ValuesAt(c) : csv.rows[i][c][1] <= v})

\* Four times the quartile k/4 of a column: the position k(n-1)/4 among the n
\* ordered values, interpolated linearly between its two neighbours.
Quartile4Of(c, k) ==
    LET n    == Cardinality(ValuesAt(c))
        lo   == ((k * (n - 1)) \div 4) + 1
        frac == (k * (n - 1)) % 4
    IN  IF frac = 0 THEN 4 * KthSmallest(c, lo)
        ELSE (4 - frac) * KthSmallest(c, lo) + frac * KthSmallest(c, lo + 1)

\* The value a / b of the report equals num / den.
SameValue(r, num, den) == r[2] # 0 /\ r[1] * den = num * r[2]

OutlierEntries(q, c) == {i \in 1..Len(q.outliers) : q.outliers[i].col = c}

\* C11: a numeric column with at least one non-null value has one outlier
\* entry, whose Q1 and Q3 are the linear-interpolation quartiles, whose bounds
\* are Q1 - 1.5 IQR and Q3 + 1.5 IQR with IQR = Q3 - Q1, and whose count is the
\* number of values strictly outside the bounds; for [1, 2, 3, 4, 5, 100] that
\* is Q1 = 2.25, Q3 = 4.75, IQR = 2.5, bounds [-1.5, 8.5] and one outlier, 100.
C11_OutlierBounds ==
    quality_report # Null =>
        \A c \in csv.cols \cap NumericColumns : ValuesAt(c) # {} =>
            LET q   == quality_report[1]
                q1  == Quartile4Of(c, 1)
                q3  == Quartile4Of(c, 3)
                iqr == q3 - q1
            IN  /\ Cardinality(OutlierEntries(q, c)) = 1
                /\ \A i \in OutlierEntries(q, c) :
                      LET o == q.outliers[i]
                      IN  /\ SameValue(o.Q1, q1, 4)
                          /\ SameValue(o.Q3, q3, 4)
                          /\ SameValue(o.lower_bound, 2 * q1 - 3 * iqr, 8)
                          /\ SameValue(o.upper_bound, 2 * q3 + 3 * iqr, 8)
                          /\ o.outlier_count =
                                Cardinality({j \in ValuesAt(c) :
                                    \/ 8 * csv.rows[j][c][1] < 2 * q1 - 3 * iqr
                                    \/ 8 * csv.rows[j][c][1] > 2 * q3 + 3 * iqr})
                          /\ ([k \in 1..Cardinality(ValuesAt(c)) |-> KthSmallest(c, k)]
                                 = <<1, 2, 3, 4, 5, 100>>) =>
                                /\ SameValue(o.Q1, 225, 100)
                                /\ SameValue(o.Q3, 475, 100)
                                /\ SameValue(o.lower_bound, -15, 10)
                                /\ SameValue(o.upper_bound, 85, 10)
                                /\ o.Q3[1] * o.Q1[2] - o.Q1[1] * o.Q3[2]
                                      = (5 * o.Q1[2] * o.Q3[2]) \div 2
                                /\ o.outlier_count = 1
                                /\ o.max_value = 100

\* The report of the column [1, 2, 3, 4, 5, 100] with a null beside it: one
\* value, 100, lies above the upper bound 8.5, and 5 lies within the bounds.
C11_Witness ==
    /\ quality_report # Null
    /\ csv.cols = {"alert_amount_usd"}
    /\ Len(csv.rows) = 7
    /\ [k \in 1..Cardinality(ValuesAt("alert_amount_usd")) |->
            KthSmallest("alert_amount_usd", k)] = <<1, 2, 3, 4, 5, 100>>
    /\ Len(quality_report[1].outliers) = 1
    /\ quality_report[1].outliers[1].outlier_count = 1
    /\ quality_report[1].outliers[1].upper_bound = <<68, 8>>
    /\ quality_report[1].outliers[1].lower_bound = <<-12, 8>>

\* The reports of rates that have been emitted.
RateReports == {x \in {fpr_analysis, fpr_report, interactive_report} : x # Null}

\* The rates of a breakdown cell b under the field f, none for a breakdown
\* that was skipped.
RatesIn(b, f) == IF b = Null THEN {} ELSE {b[1][i][f] : i \in 1..Len(b[1])}

\* Every rate emitted so far: overall, per alert type, risk tier and country,
\* per amount bucket and per (country, risk tier) pair.
EmittedRates ==
    {r[1].overall_fpr : r \in RateReports}
    \cup (IF fpr_report = Null THEN {} ELSE {fpr_report[1].overall_tpr})
    \cup UNION {RatesIn(r[1].by_alert_type, "rate") \cup RatesIn(r[1].by_risk_tier, "rate")
                  \cup RatesIn(r[1].by_country, "rate") : r \in RateReports}
    \cup (IF interactive_report = Null THEN {}
          ELSE RatesIn(interactive_report[1].tpr_by_amount, "tpr")
               \cup (IF interactive_report[1].heatmap = Null THEN {}
                     ELSE LET h == interactive_report[1].heatmap[1]
                          IN  {h.tpr[i][j] : i \in 1..Len(h.index),
                                             j \in 1..Len(h.columns)}))

InUnitInterval(r) == r[2] > 0 /\ 0 <= r[1] /\ r[1] <= r[2]

\* C12: every rate emitted by a rate computation (overall FPR and TPR, per
\* alert type, per risk tier, per country, per amount bucket, per (country,
\* risk tier) pair) is a fraction between 0 and 1, whatever the table.
C12_RatesInUnitInterval == \A r \in EmittedRates : InUnitInterval(r)

\* The rows of the input whose outcome is neither of the two labels, a null
\* outcome among them.
OtherOutcomes ==
    {i \in 1..Len(csv.rows) :
        csv.rows[i].alert_outcome \notin {Val("false_positive"), Val("true_positive")}}

\* C13: in every report on a table with the outcome column, the count of false
\* positives plus the count of true positives is at most the number of rows,
\* and equals it exactly when no row has another outcome label or no outcome.
C13_CountsWithinTotal ==
    \A r \in RateReports :
        /\ r[1].total_alerts = Len(csv.rows)
        /\ r[1].false_positives + r[1].true_positives <= r[1].total_alerts
        /\ (r[1].false_positives + r[1].true_positives = r[1].total_alerts)
              <=> (OtherOutcomes = {})

\* main.py has run to its end on a table of a false positive, a true positive
\* and a row with another label: both reports count two of the three rows.
C13_Witness ==
    /\ script = "main" /\ pc = "done"
    /\ fpr_analysis # Null /\ fpr_report # Null
    /\ Len(csv.rows) = 3
    /\ \E i \in 1..3 : csv.rows[i].alert_outcome = Val("escalated")
    /\ fpr_analysis[1].false_positives = 1 /\ fpr_analysis[1].true_positives = 1
    /\ fpr_report[1].false_positives + fpr_report[1].true_positives = 2

\* The block a flag belongs to.
FlagBlock(f) ==
    CASE f.flag \in {"HIGH MISSING", "MODERATE MISSING"}       -> 1
      [] f.flag \in {"HIGH DUPLICATES", "MODERATE DUPLICATES"} -> 2
      [] f.flag = "HIGH OUTLIERS"                              -> 3
      [] f.flag = "INCONSISTENCY"                              -> 4

\* The number of flags of a block about a column (or about the rows).
FlagsAbout(q, block, c) ==
    Cardinality({i \in 1..Len(q.summary_flags) :
        FlagBlock(q.summary_flags[i]) = block /\ q.summary_flags[i].about = c})

\* The number of inconsistency flags of one issue of a column.
FlagsOfIssue(q, c, issue) ==
    Cardinality({i \in 1..Len(q.summary_flags) :
        /\ FlagBlock(q.summary_flags[i]) = 4
        /\ q.summary_flags[i].about = c
        /\ q.summary_flags[i].issue = issue})

\* The rows of the input equal to an earlier row.
RepeatedRows == Len(csv.rows) - Cardinality({csv.rows[i] : i \in 1..Len(csv.rows)})

\* The values of a numeric column strictly outside its IQR bounds.
OutsideBounds(c) ==
    LET q1  == Quartile4Of(c, 1)
        q3  == Quartile4Of(c, 3)
    IN  Cardinality({j \in ValuesAt(c) :
            \/ 8 * csv.rows[j][c][1] < 2 * q1 - 3 * (q3 - q1)
            \/ 8 * csv.rows[j][c][1] > 2 * q3 + 3 * (q3 - q1)})

TextNamed == {"alert_outcome", "alert_type", "customer_risk_tier"}

\* The conditions that trigger a flag, read off the input: a column more than
\* 20% null, more than 5% repeated rows, a numeric column with more than 10%
\* outliers, and each inconsistency found.
MissingTriggers == {c \in csv.cols : 100 * NullsIn(c) > 20 * Len(csv.rows)}

DuplicateTriggers == IF 100 * RepeatedRows > 5 * Len(csv.rows) THEN {"rows"} ELSE {}

OutlierTriggers ==
    {c \in csv.cols \cap NumericColumns :
        ValuesAt(c) # {} /\ 100 * OutsideBounds(c) > 10 * Len(csv.rows)}

InconsistencyTriggers ==
    {<<c, "negative_values">> : c \in {d \in csv.cols \cap {"alert_amount_usd"} :
        \E i \in ValuesAt(d) : csv.rows[i][d][1] < 0}}
    \cup {<<c, "empty_strings">> : c \in {d \in csv.cols \cap TextNamed :
        \E i \in ValuesAt(d) : csv.rows[i][d][1] = ""}}
    \cup {<<c, "whitespace_only">> : c \in {d \in csv.cols \cap TextNamed :
        \E i \in ValuesAt(d) : csv.rows[i][d][1] \in {" ", "  "}}}

\* C14: the summary flags come in the order missing, duplicates, outliers,
\* inconsistencies; each condition that triggers contributes exactly one flag
\* and nothing else contributes one, so that with no trigger the list is empty,
\* and nothing is raised.
C14_FlagOrder ==
    quality_report # Null =>
        LET q == quality_report[1]
            f == q.summary_flags
        IN  /\ raised = "none"
            /\ \A i \in 1..Len(f) : \A j \in i..Len(f) : FlagBlock(f[i]) <= FlagBlock(f[j])
            /\ \A c \in csv.cols :
                  /\ FlagsAbout(q, 1, c) = IF c \in MissingTriggers THEN 1 ELSE 0
                  /\ FlagsAbout(q, 3, c) = IF c \in OutlierTriggers THEN 1 ELSE 0
                  /\ \A issue \in {"negative_values", "empty_strings", "whitespace_only"} :
                        FlagsOfIssue(q, c, issue) =
                            IF <<c, issue>> \in InconsistencyTriggers THEN 1 ELSE 0
            /\ FlagsAbout(q, 2, "rows") = Cardinality(DuplicateTriggers)
            /\ Len(f) = Cardinality(MissingTriggers) + Cardinality(DuplicateTriggers)
                          + Cardinality(OutlierTriggers) + Cardinality(InconsistencyTriggers)
            /\ (MissingTriggers = {} /\ DuplicateTriggers = {} /\ OutlierTriggers = {}
                  /\ InconsistencyTriggers = {}) => f = <<>>

\* The report of a table that triggers all four kinds of flag: a missing flag
\* first, then the duplicate flag, then an outlier flag, then more than one
\* inconsistency flag.
C14_Witness ==
    /\ quality_report # Null
    /\ MissingTriggers # {} /\ DuplicateTriggers # {} /\ OutlierTriggers # {}
    /\ Cardinality(InconsistencyTriggers) > 1
    /\ LET f == quality_report[1].summary_flags
       IN  /\ Len(f) >= 5
           /\ FlagBlock(f[1]) = 1 /\ FlagBlock(f[2]) = 2 /\ FlagBlock(f[3]) = 3
           /\ FlagBlock(f[4]) = 4 /\ FlagBlock(f[5]) = 4

\* The report of a table with rows and no trigger: no flag.
C14_WitnessNoFlag ==
    /\ quality_report # Null
    /\ Len(csv.rows) > 1
    /\ MissingTriggers = {} /\ DuplicateTriggers = {} /\ OutlierTriggers = {}
    /\ InconsistencyTriggers = {}
    /\ quality_report[1].summary_flags = <<>>

\* The entries of the inconsistencies under one key.
IssueEntries(q, c, issue) ==
    {i \in 1..Len(q.inconsistencies) : q.inconsistencies[i].issue = <<c, issue>>}

\* The values of a text column of the input that are among strs.
ValuesAmong(c, strs) == Cardinality({i \in ValuesAt(c) : csv.rows[i][c][1] \in strs})

\* The key of an issue holds count when count is positive and is absent
\* otherwise.
ReportedAs(q, c, issue, count) ==
    IF count > 0
    THEN /\ Cardinality(IssueEntries(q, c, issue)) = 1
         /\ \A i \in IssueEntries(q, c, issue) : q.inconsistencies[i].count = count
    ELSE IssueEntries(q, c, issue) = {}

\* C15: for every text column, '<col>_empty_strings' holds the number of values
\* equal to the empty string and '<col>_whitespace_only' the number of values
\* that are not empty and consist of whitespace only, so that no value is
\* counted under both; a key is present only when its count is above zero.
C15_BlankTextCounts ==
    quality_report # Null =>
        \A c \in csv.cols \cap TextNamed :
            /\ ReportedAs(quality_report[1], c, "empty_strings", ValuesAmong(c, {""}))
            /\ ReportedAs(quality_report[1], c, "whitespace_only",
                          ValuesAmong(c, {" ", "  "}))

\* The report of a table whose alert types hold one empty string and three
\* whitespace-only strings: the two keys hold 1 and 3.
C15_Witness ==
    /\ quality_report # Null
    /\ "alert_type" \in csv.cols
    /\ ValuesAmong("alert_type", {""}) = 1
    /\ ValuesAmong("alert_type", {" ", "  "}) = 3
    /\ \E i \in IssueEntries(quality_report[1], "alert_type", "empty_strings") :
          quality_report[1].inconsistencies[i].count = 1
    /\ \E i \in IssueEntries(quality_report[1], "alert_type", "whitespace_only") :
          quality_report[1].inconsistencies[i].count = 3

\* C16: create_interactive_report leaves its input as it was on every exit, a
\* normal return or an error raised part-way: the columns and the values are
\* those before the call, no 'amount_bin' or 'is_tp' column is left behind, and
\* a column of the input named 'amount_bin' or 'is_tp' is still there with its
\* values.
C16_InputIsImmutable ==
    (script = "plotly" /\ pc # "create_interactive_report") =>
        /\ df.cols = csv.cols
        /\ df.rows = csv.rows

====
